---- MODULE Spec2Model ----
(***************************************************************************)
(* Model of the SB8200 Prometheus exporter: the poll loop of app/main.py,  *)
(* the login and data requests of app/sb8200/scrape.py, the HTML           *)
(* extraction of app/sb8200/parse.py and the projection of the extracted   *)
(* rows onto the metrics declared in app/sb8200/metrics.py.                *)
(*                                                                         *)
(* main.py calls do_login(client) and do_modem_scrape(client, csrf_token). *)
(* scrape.py holds both steps in the one body of do_modem_scrape: the      *)
(* login request (lines 54-90) and the two data requests (lines 94-128).   *)
(* The model follows main.py's call structure: do_login is the login       *)
(* request of scrape.py, do_modem_scrape is its two data requests, made    *)
(* with the token main.py passes in.                                       *)
(*                                                                         *)
(* A parsed page (BeautifulSoup) is a record: its <title> text, the text   *)
(* of <p id="systime">, its simpleTable tables (the <th> text and the <tr> *)
(* rows, each the texts of its <td> cells) and the <td> label/value pairs  *)
(* of the product page (tds), with the cell after "Up Time" kept apart     *)
(* (uptime).  Text is a TLA+ string; the up time text is a sequence of     *)
(* characters, since the code matches it against a regular expression.     *)
(***************************************************************************)
EXTENDS Integers, Sequences, FiniteSets, TLC

\* ------------------------------------------------------------- bounds
\* Requests (login and data) the loop sends to the device in one run.
MaxRequests == 6
\* Rows of one channel table handed to _do_metrics_update.
MaxRows == 2

\* ------------------------------------------------------------- python values
\* Python's None, where the code holds None or a string.
None == "<None>"
\* BeautifulSoup's find() found no such element.
NoElement == "<no element>"
\* No exception is propagating.
NoExc == "<no exception>"

\* ------------------------------------------------------------- generic helpers
\* dict[k] = v: a dict is a function whose domain grows.
Put(d, k, v) == [x \in (DOMAIN d) \cup {k} |-> IF x = k THEN v ELSE d[x]]

\* counter.labels(k).inc()
Inc(d, k) == Put(d, k, IF k \in DOMAIN d THEN d[k] + 1 ELSE 1)

EmptyDict == [x \in {} |-> 0]

\* ------------------------------------------------------------- str.split(" "), float(), int()
\* s.split(" "): the strings of the model that hold a space, split; a string
\* with no space is its own only token ("Harmless if there's no space").
Split(s) ==
    CASE s = "363 Hz" -> <<"363", "Hz">>
      [] s = "555 Hz" -> <<"555", "Hz">>
      [] s = "6 dBmV" -> <<"6", "dBmV">>
      [] s = "40 dB" -> <<"40", "dB">>
      [] s = "40 Hz" -> <<"40", "Hz">>
      [] s = "6 Hz" -> <<"6", "Hz">>
      [] s = "2 Hz" -> <<"2", "Hz">>
      [] s = "40 dBmV" -> <<"40", "dBmV">>
      [] s = "Not Locked" -> <<"Not", "Locked">>
      [] s = "SC-QAM Upstream" -> <<"SC-QAM", "Upstream">>
      [] OTHER -> <<s>>

\* The decimal integer literals of the model and their values.
NumberOf ==
    [s \in {"0", "1", "01", "2", "6", "40", "363", "555"} |->
        CASE s = "0" -> 0 [] s = "1" -> 1 [] s = "01" -> 1 [] s = "2" -> 2 [] s = "6" -> 6
          [] s = "40" -> 40 [] s = "363" -> 363 [] s = "555" -> 555]

\* str(n) of an int: the label value prometheus_client keeps.
StrOf(n) ==
    CASE n = 0 -> "0" [] n = 1 -> "1" [] n = 2 -> "2" [] n = 6 -> "6"
      [] n = 40 -> "40" [] n = 363 -> "363" [] n = 555 -> "555"

\* float(s) and int(s) raise ValueError on any other string.
IsNumeric(s) == s \in DOMAIN NumberOf

\* ------------------------------------------------------------- parse.py
\* soup.find("title").text.strip() == "Login"; .text of a missing element
\* (find returned None) raises AttributeError.
is_login_page(soup) ==
    IF soup.title = NoElement
    THEN [exc |-> "AttributeError", value |-> FALSE]
    ELSE [exc |-> NoExc, value |-> (soup.title = "Login")]

\* The texts that hold a ':' and what follows the first one, stripped.
AfterColon ==
    [s \in {"Current System Time: Tue Mar 12 14:20:59 2024", "Current System Time:"} |->
        IF s = "Current System Time:" THEN "" ELSE "Tue Mar 12 14:20:59 2024"]

\* datetime.strptime(s, "%a %b %d %H:%M:%S %Y") succeeds.
IsDatetime(s) == s = "Tue Mar 12 14:20:59 2024"

\* value is the parsed datetime (kept as its text) or None.
get_current_system_time(soup) ==
    IF soup.systime = NoElement
    THEN [exc |-> NoExc, value |-> None]
    ELSE IF soup.systime \notin DOMAIN AfterColon
    THEN [exc |-> "IndexError", value |-> None]
    ELSE IF ~IsDatetime(AfterColon[soup.systime])
    THEN [exc |-> "ValueError", value |-> None]
    ELSE [exc |-> NoExc, value |-> AfterColon[soup.systime]]

\* The keys extract_startup_procedure keeps.
StartupKeys ==
    {"Acquire Downstream Channel", "Connectivity State", "Boot State",
     "Configuration File", "Security", "DOCSIS Network Access Enabled"}

\* "Startup Procedure" in header.text
ContainsStartupProcedure(th) == th = "Startup Procedure"

\* for table in tables: if <test>: the index of the first table that passes
\* the test, 0 when none does.  passes[i] is the test of table i.
FirstTable(passes) ==
    LET hits == {i \in 1..Len(passes) : passes[i]} IN
    IF hits = {} THEN 0 ELSE CHOOSE i \in hits : \A j \in hits : i <= j

\* startup_procedure_data[key] = {...}: a dict keeps the place of a key's
\* first insertion and the value of its last.
DictSet(d, key, val) ==
    IF \E i \in 1..Len(d) : d[i].key = key
    THEN [i \in 1..Len(d) |-> IF d[i].key = key THEN [key |-> key, val |-> val] ELSE d[i]]
    ELSE Append(d, [key |-> key, val |-> val])

RECURSIVE StartupRows(_, _, _)
StartupRows(rows, i, d) ==
    IF i > Len(rows) THEN d
    ELSE LET cols == rows[i] IN
         IF Len(cols) = 3 /\ cols[1] \in StartupKeys
         THEN StartupRows(rows, i + 1,
                  DictSet(d, cols[1], [Value |-> cols[2], Comment |-> cols[3]]))
         ELSE StartupRows(rows, i + 1, d)

\* An ordered dict: a sequence of [key, val] with distinct keys.
extract_startup_procedure(soup) ==
    LET t == FirstTable([i \in 1..Len(soup.tables) |->
                            ContainsStartupProcedure(soup.tables[i].th)]) IN
    IF t = 0 THEN <<>> ELSE StartupRows(soup.tables[t].rows, 1, <<>>)

\* rows[1:] of the first table with a <th> of that text; none: None.
extract_table_rows(soup, table_section_title) ==
    LET t == FirstTable([i \in 1..Len(soup.tables) |->
                            soup.tables[i].th = table_section_title]) IN
    IF t = 0 THEN [none |-> TRUE, rows |-> <<>>]
    ELSE [none |-> FALSE,
          rows |-> IF Len(soup.tables[t].rows) = 0 THEN <<>> ELSE Tail(soup.tables[t].rows)]

extract_downstream_channels(soup) == extract_table_rows(soup, "Downstream Bonded Channels")

extract_upstream_channels(soup) == extract_table_rows(soup, "Upstream Bonded Channels")

\* ---- the up time: re.match(r"(\d+) days (\d+)h:(\d+)m:(\d+)s", uptime)
Digits == {"0", "1", "2", "3", "4", "5", "6", "7", "8", "9"}

DigitValue(c) ==
    CASE c = "0" -> 0 [] c = "1" -> 1 [] c = "2" -> 2 [] c = "3" -> 3 [] c = "4" -> 4
      [] c = "5" -> 5 [] c = "6" -> 6 [] c = "7" -> 7 [] c = "8" -> 8 [] c = "9" -> 9

\* (\d+) from position i: the position after the last digit; i when none.
RECURSIVE EndOfDigits(_, _)
EndOfDigits(s, i) ==
    IF i <= Len(s) /\ s[i] \in Digits THEN EndOfDigits(s, i + 1) ELSE i

\* int() of the digits s[i..j-1]
RECURSIVE IntOfDigits(_, _, _, _)
IntOfDigits(s, i, j, acc) ==
    IF i >= j THEN acc ELSE IntOfDigits(s, i + 1, j, acc * 10 + DigitValue(s[i]))

\* The literal lit at position i of s.
LiteralAt(s, i, lit) ==
    /\ i + Len(lit) - 1 <= Len(s)
    /\ \A k \in 1..Len(lit) : s[i + k - 1] = lit[k]

\* One (\d+) group followed by a literal: [ok, value, next].  \d+ is greedy
\* and the literal starts with no digit, so no backtracking is lost.
GroupThen(s, i, lit) ==
    LET j == EndOfDigits(s, i) IN
    IF j > i /\ LiteralAt(s, j, lit)
    THEN [ok |-> TRUE, value |-> IntOfDigits(s, i, j, 0), next |-> j + Len(lit)]
    ELSE [ok |-> FALSE, value |-> 0, next |-> i]

\* The timedelta built without its days.
get_uptime_str_as_timedelta_NoDays(uptime) ==
    LET d == GroupThen(uptime, 1, <<" ", "d", "a", "y", "s", " ">>)
        h == GroupThen(uptime, d.next, <<"h", ":">>)
        m == GroupThen(uptime, h.next, <<"m", ":">>)
        s == GroupThen(uptime, m.next, <<"s">>) IN
    IF d.ok /\ h.ok /\ m.ok /\ s.ok
    THEN [none |-> FALSE, seconds |-> h.value * 3600 + m.value * 60 + s.value]
    ELSE [none |-> TRUE, seconds |-> 0]

\* The timedelta, as its total_seconds(), or no match: None.
get_uptime_str_as_timedelta(uptime) ==
    LET d == GroupThen(uptime, 1, <<" ", "d", "a", "y", "s", " ">>)
        h == GroupThen(uptime, d.next, <<"h", ":">>)
        m == GroupThen(uptime, h.next, <<"m", ":">>)
        s == GroupThen(uptime, m.next, <<"s">>) IN
    IF d.ok /\ h.ok /\ m.ok /\ s.ok
    THEN [none |-> FALSE,
          seconds |-> d.value * 86400 + h.value * 3600 + m.value * 60 + s.value]
    ELSE [none |-> TRUE, seconds |-> 0]

\* The labels get_modem_info looks for and the key each one fills.
InfoKeyOf ==
    [l \in {"Standard Specification Compliant", "Software Version",
            "Cable Modem MAC Address", "Serial Number"} |->
        CASE l = "Standard Specification Compliant" -> "docsis_version"
          [] l = "Software Version" -> "software_version"
          [] l = "Cable Modem MAC Address" -> "mac_address"
          [] l = "Serial Number" -> "serial_number"]

\* strs: the keys that hold a str; up_time: the timedelta or no timedelta
\* (the initial value of the dict, or None from the regular expression).
get_modem_info(soup) ==
    [strs |-> [k \in {InfoKeyOf[l] : l \in (DOMAIN soup.tds) \cap (DOMAIN InfoKeyOf)} |->
                  soup.tds[CHOOSE l \in (DOMAIN soup.tds) \cap (DOMAIN InfoKeyOf) :
                               InfoKeyOf[l] = k]],
     up_time |-> IF soup.uptime.found
                 THEN get_uptime_str_as_timedelta(soup.uptime.text)
                 ELSE [none |-> TRUE, seconds |-> 0]]

\* ------------------------------------------------------------- metrics.py
\* The registry: every metric family of metrics.py, by its label values.
\*   gauge          <<metric, label>> -> value         (Gauge.set)
\*   summary        <<metric, label>> -> [count, sum]  (Summary.observe)
\*   enum           <<metric, label>> -> state         (Enum.state)
\*   info           i_modem_info: key -> str
\*   uptime         g_modem_uptime_seconds (no labels: 0 from the start)
\*   parse_result   c_meta_parse_result: <<target, result>> -> count
\*   scrape_result  c_meta_scrape_result: <<http_code, target>> -> count
\* s_meta_scrape_time observes wall-clock durations, which the model leaves out.
EmptyRegistry ==
    [gauge |-> EmptyDict, summary |-> EmptyDict, enum |-> EmptyDict,
     info |-> EmptyDict, uptime |-> 0,
     parse_result |-> EmptyDict, scrape_result |-> EmptyDict]

\* A column with no dict: DS_METRICS["Channel ID"] = None.
NoMetric == [metric |-> None, kind |-> None, flags |-> None]

Col(name, m) == [name |-> name, metric |-> m.metric, kind |-> m.kind, flags |-> m.flags]

DS_METRICS ==
    << Col("Channel ID", NoMetric),
       Col("Lock Status", [metric |-> "g_downstream_lock_status", kind |-> "Gauge", flags |-> "cumulative"]),
       Col("Modulation", [metric |-> "g_downstream_modulation_scheme", kind |-> "Gauge", flags |-> "cumulative"]),
       Col("Frequency", [metric |-> "g_downstream_frq_hz", kind |-> "Gauge", flags |-> None]),
       Col("Power", [metric |-> "g_downstream_power_db", kind |-> "Gauge", flags |-> None]),
       Col("SNR/MER", [metric |-> "g_downstream_snr_db", kind |-> "Gauge", flags |-> None]),
       Col("Corrected", [metric |-> "s_downstream_corrected", kind |-> "Summary", flags |-> None]),
       Col("Uncorrectables", [metric |-> "s_downstream_uncorrectable", kind |-> "Summary", flags |-> None]) >>

US_METRICS ==
    << Col("Channel", NoMetric),
       Col("Channel ID", NoMetric),
       Col("Lock Status", [metric |-> "g_upstream_lock_count", kind |-> "Gauge", flags |-> "cumulative"]),
       Col("US Channel Type", [metric |-> "g_upstream_channel_type", kind |-> "Gauge", flags |-> "cumulative"]),
       Col("Frequency", [metric |-> "g_upstream_frq_hz", kind |-> "Gauge", flags |-> None]),
       Col("Width", [metric |-> "g_upstream_ch_width_hz", kind |-> "Gauge", flags |-> None]),
       Col("Power", [metric |-> "g_upstream_power_db", kind |-> "Gauge", flags |-> None]) >>

\* SU_METRICS[procedure]: None for "Boot State".
SU_METRICS ==
    [p \in StartupKeys |->
        CASE p = "Acquire Downstream Channel" ->
                [metric |-> "g_startup_downstream_channel_hz", kind |-> "Gauge",
                 values |-> EmptyDict, default |-> None]
          [] p = "Connectivity State" ->
                [metric |-> "e_startup_connectivity_state", kind |-> "Enum",
                 values |-> [v \in {"OK"} |-> "ok"], default |-> "not_ok"]
          [] p = "Boot State" ->
                [metric |-> None, kind |-> None, values |-> EmptyDict, default |-> None]
          [] p = "Configuration File" ->
                [metric |-> "e_startup_config_file_state", kind |-> "Enum",
                 values |-> [v \in {"OK"} |-> "ok"], default |-> "not_ok"]
          [] p = "Security" ->
                [metric |-> "e_startup_security_state", kind |-> "Enum",
                 values |-> [v \in {"Enabled"} |-> "enabled"], default |-> "not_enabled"]
          [] p = "DOCSIS Network Access Enabled" ->
                [metric |-> "e_startup_docsis_net_access", kind |-> "Enum",
                 values |-> [v \in {"Allowed"} |-> "allowed"], default |-> "not_allowed"]]

\* ------------------------------------------------------------- scrape.py: _do_metrics_update
\* Line 286 taking the first column, whatever its header, for the channel id.
ChannelIdIndexFirst(metrics_map) == 1

\* _headers.index("Channel ID"); 0 when "Channel ID" is no header.
ChannelIdIndex(metrics_map) ==
    LET hits == {i \in 1..Len(metrics_map) : metrics_map[i].name = "Channel ID"} IN
    IF hits = {} THEN 0 ELSE CHOOSE i \in hits : \A j \in hits : i <= j

\* Lines 370-397 without the except clause: a cast that fails propagates.
ProjectCellCastRaises(st, row, col_idx, ch_id, metrics_map, ch_id_idx) ==
    LET metric_dict == metrics_map[col_idx]
        value == Split(row[col_idx])[1]
        key == <<metric_dict.metric, StrOf(ch_id)>>
    IN
    IF metric_dict.metric = None \/ col_idx = ch_id_idx THEN st
    ELSE IF metric_dict.flags # None
    THEN [st EXCEPT !.cum = Inc(st.cum, <<metric_dict.name, value>>)]
    ELSE IF ~IsNumeric(value) THEN [st EXCEPT !.exc = "ValueError"]
    ELSE IF metric_dict.kind = "Gauge"
    THEN [st EXCEPT !.reg.gauge = Put(st.reg.gauge, key, NumberOf[value])]
    ELSE [st EXCEPT !.reg.summary =
             Put(st.reg.summary, key,
                 IF key \in DOMAIN st.reg.summary
                 THEN [count |-> st.reg.summary[key].count + 1,
                       sum |-> st.reg.summary[key].sum + NumberOf[value]]
                 ELSE [count |-> 1, sum |-> NumberOf[value]])]

\* Lines 326-331 without the two skips: a column with no metric, the channel
\* id column among them, is set as a gauge of its own.
ProjectCellNoSkip(st, row, col_idx, ch_id, metrics_map, ch_id_idx) ==
    LET metric_dict == metrics_map[col_idx]
        value == Split(row[col_idx])[1]
        key == <<metric_dict.metric, StrOf(ch_id)>>
    IN
    IF metric_dict.flags # None
    THEN [st EXCEPT !.cum = Inc(st.cum, <<metric_dict.name, value>>)]
    ELSE IF ~IsNumeric(value) THEN st
    ELSE [st EXCEPT !.reg.gauge = Put(st.reg.gauge, key, NumberOf[value])]

\* One cell of a row whose width matched (lines 324-397).  st is
\* [reg, cum, exc]: the registry, the cumulative tally
\* <<column name, value>> -> count, and the exception propagating.
ProjectCell(st, row, col_idx, ch_id, metrics_map, ch_id_idx) ==
    LET metric_dict == metrics_map[col_idx]
        value == Split(row[col_idx])[1]
        key == <<metric_dict.metric, StrOf(ch_id)>>
    IN
    IF metric_dict.metric = None THEN st
    ELSE IF col_idx = ch_id_idx THEN st
    ELSE IF metric_dict.flags # None
    THEN [st EXCEPT !.cum = Inc(st.cum, <<metric_dict.name, value>>)]
    ELSE IF ~IsNumeric(value) THEN st
    ELSE IF metric_dict.kind = "Gauge"
    THEN [st EXCEPT !.reg.gauge = Put(st.reg.gauge, key, NumberOf[value])]
    ELSE IF metric_dict.kind = "Summary"
    THEN [st EXCEPT !.reg.summary =
             Put(st.reg.summary, key,
                 IF key \in DOMAIN st.reg.summary
                 THEN [count |-> st.reg.summary[key].count + 1,
                       sum |-> st.reg.summary[key].sum + NumberOf[value]]
                 ELSE [count |-> 1, sum |-> NumberOf[value]])]
    ELSE st

RECURSIVE ProjectCols(_, _, _, _, _, _)
ProjectCols(st, row, col_idx, ch_id, metrics_map, ch_id_idx) ==
    IF col_idx > Len(metrics_map) THEN st
    ELSE ProjectCols(ProjectCell(st, row, col_idx, ch_id, metrics_map, ch_id_idx),
                     row, col_idx + 1, ch_id, metrics_map, ch_id_idx)

\* Lines 306-313 raising on a row of another width, where the code continues.
ProjectRowRaggedRaises(st, row, metrics_map, ch_id_idx) ==
    IF Len(row) # Len(metrics_map) THEN [st EXCEPT !.exc = "IndexError"]
    ELSE IF ~IsNumeric(row[ch_id_idx]) THEN [st EXCEPT !.exc = "ValueError"]
    ELSE ProjectCols(st, row, 1, NumberOf[row[ch_id_idx]], metrics_map, ch_id_idx)

\* One row (lines 305-397): a row of another width is skipped; int() of the
\* channel id cell is outside the try and its ValueError propagates.
ProjectRow(st, row, metrics_map, ch_id_idx) ==
    IF Len(row) # Len(metrics_map) THEN st
    ELSE IF ~IsNumeric(row[ch_id_idx]) THEN [st EXCEPT !.exc = "ValueError"]
    ELSE ProjectCols(st, row, 1, NumberOf[row[ch_id_idx]], metrics_map, ch_id_idx)

RECURSIVE ProjectRows(_, _, _, _, _)
ProjectRows(st, ch_data, idx, metrics_map, ch_id_idx) ==
    IF idx > Len(ch_data) \/ st.exc # NoExc THEN st
    ELSE ProjectRows(ProjectRow(st, ch_data[idx], metrics_map, ch_id_idx),
                     ch_data, idx + 1, metrics_map, ch_id_idx)

\* The metric of a column name.
MetricOfColumn(metrics_map, name) ==
    metrics_map[CHOOSE i \in 1..Len(metrics_map) : metrics_map[i].name = name].metric

\* Lines 403-407: metric.labels(value_str).set(float(value_ct)) for every
\* value counted; the labels are distinct, so the order does not show.
PublishCumulative(gauge, cum, metrics_map) ==
    [k \in (DOMAIN gauge) \cup {<<MetricOfColumn(metrics_map, c[1]), c[2]>> : c \in DOMAIN cum} |->
        IF \E c \in DOMAIN cum : <<MetricOfColumn(metrics_map, c[1]), c[2]>> = k
        THEN cum[CHOOSE c \in DOMAIN cum : <<MetricOfColumn(metrics_map, c[1]), c[2]>> = k]
        ELSE gauge[k]]

\* [reg, exc]: the registry after the call and the exception it raised.
do_metrics_update(ch_data, metrics_map, reg) ==
    LET ch_id_idx == ChannelIdIndex(metrics_map) IN
    IF ch_id_idx = 0 THEN [reg |-> reg, exc |-> NoExc]
    ELSE LET st == ProjectRows([reg |-> reg, cum |-> EmptyDict, exc |-> NoExc],
                               ch_data, 1, metrics_map, ch_id_idx) IN
         IF st.exc # NoExc THEN [reg |-> st.reg, exc |-> st.exc]
         ELSE [reg |-> [st.reg EXCEPT !.gauge = PublishCumulative(st.reg.gauge, st.cum, metrics_map)],
               exc |-> NoExc]

\* ------------------------------------------------------------- scrape.py: the update functions
\* Each returns [reg, exc]: the registry after the call (what was written
\* before an exception stays written) and the exception the call raised.

\* One procedure of startup_info (lines 231-263).
UpdateStartup(reg, procedure, data) ==
    LET metric_data == IF procedure \in DOMAIN SU_METRICS THEN SU_METRICS[procedure]
                       ELSE SU_METRICS["Boot State"]
        counted(r) == [r EXCEPT !.parse_result = Inc(r.parse_result, <<"startup", TRUE>>)]
    IN
    IF procedure \notin DOMAIN SU_METRICS THEN [reg |-> reg, exc |-> NoExc]
    ELSE IF metric_data.metric = None THEN [reg |-> counted(reg), exc |-> NoExc]
    ELSE IF metric_data.kind = "Gauge"
    THEN LET v == Split(data.Value)[1] IN
         IF ~IsNumeric(v) THEN [reg |-> reg, exc |-> "ValueError"]
         ELSE [reg |-> counted([reg EXCEPT !.gauge =
                          Put(reg.gauge, <<metric_data.metric, data.Comment>>, NumberOf[v])]),
               exc |-> NoExc]
    ELSE LET v == IF data.Value \in DOMAIN metric_data.values
                  THEN metric_data.values[data.Value] ELSE metric_data.default
             \* labels(None) keeps str(None)
             c == IF data.Comment # "" THEN data.Comment ELSE "None"
         IN [reg |-> counted([reg EXCEPT !.enum = Put(reg.enum, <<metric_data.metric, c>>, v)]),
             exc |-> NoExc]

RECURSIVE UpdateStartupFrom(_, _, _)
UpdateStartupFrom(r, startup_info, i) ==
    IF i > Len(startup_info) \/ r.exc # NoExc THEN r
    ELSE UpdateStartupFrom(UpdateStartup(r.reg, startup_info[i].key, startup_info[i].val),
                           startup_info, i + 1)

update_connection_metrics(connection_info_html, reg) ==
    UpdateStartupFrom([reg |-> reg, exc |-> NoExc],
                      extract_startup_procedure(connection_info_html), 1)

update_connection_channel_metrics(bs, reg) ==
    LET parsed_time == get_current_system_time(bs)
        reg1 == [reg EXCEPT !.parse_result =
                    Inc(reg.parse_result, <<"datetime", parsed_time.value # None>>)]
        ds == extract_downstream_channels(bs)
        reg2 == [reg1 EXCEPT !.parse_result = Inc(reg1.parse_result, <<"conn_downstream", ~ds.none>>)]
        r3 == do_metrics_update(ds.rows, DS_METRICS, reg2)
        us == extract_upstream_channels(bs)
        reg4 == [r3.reg EXCEPT !.parse_result = Inc(r3.reg.parse_result, <<"conn_upstream", ~us.none>>)]
    IN
    IF parsed_time.exc # NoExc THEN [reg |-> reg, exc |-> parsed_time.exc]
    ELSE IF ds.none THEN [reg |-> reg2, exc |-> NoExc]
    ELSE IF r3.exc # NoExc THEN r3
    ELSE IF us.none THEN [reg |-> reg4, exc |-> NoExc]
    ELSE do_metrics_update(us.rows, US_METRICS, reg4)

\* Lines 191-202 with the gauge set to 0 when no timedelta was parsed.
update_modem_metrics_ZeroOnFailure(prod_info_html, reg) ==
    LET modem_info == get_modem_info(prod_info_html)
        uptime == modem_info.up_time
        reg1 == IF uptime.none
                THEN [reg EXCEPT !.uptime = 0,
                                 !.parse_result = Inc(reg.parse_result, <<"product_info", FALSE>>)]
                ELSE [reg EXCEPT !.uptime = uptime.seconds,
                                 !.parse_result = Inc(reg.parse_result, <<"product_info", TRUE>>)]
    IN
    [reg |-> IF DOMAIN modem_info.strs # {} THEN [reg1 EXCEPT !.info = modem_info.strs] ELSE reg1,
     exc |-> NoExc]

\* Lines 208-211 without the test of the length: the info is always written.
update_modem_metrics_AlwaysInfo(prod_info_html, reg) ==
    LET modem_info == get_modem_info(prod_info_html)
        uptime == modem_info.up_time
        reg1 == IF uptime.none
                THEN [reg EXCEPT !.parse_result = Inc(reg.parse_result, <<"product_info", FALSE>>)]
                ELSE [reg EXCEPT !.uptime = uptime.seconds,
                                 !.parse_result = Inc(reg.parse_result, <<"product_info", TRUE>>)]
    IN
    [reg |-> [reg1 EXCEPT !.info = modem_info.strs], exc |-> NoExc]

update_modem_metrics(prod_info_html, reg) ==
    LET modem_info == get_modem_info(prod_info_html)
        uptime == modem_info.up_time
        reg1 == IF uptime.none
                THEN [reg EXCEPT !.parse_result = Inc(reg.parse_result, <<"product_info", FALSE>>)]
                ELSE [reg EXCEPT !.uptime = uptime.seconds,
                                 !.parse_result = Inc(reg.parse_result, <<"product_info", TRUE>>)]
    IN
    [reg |-> IF DOMAIN modem_info.strs # {} THEN [reg1 EXCEPT !.info = modem_info.strs] ELSE reg1,
     exc |-> NoExc]

\* ------------------------------------------------------------- scrape.py: the requests
\* A response: the request failed below HTTP (error), or a status and a body.
\* The login request (lines 64-90): [exc, token, jar, reg].  main.py:71
\* always sets the client's auth, so the NoAuthTokenError of line 57 is not
\* raised.
do_login(resp, jar, reg) ==
    LET reg1 == [reg EXCEPT !.scrape_result = Inc(reg.scrape_result, <<resp.status, "login">>)] IN
    IF resp.error THEN [exc |-> "ClientError", token |-> None, jar |-> jar, reg |-> reg]
    ELSE IF resp.status # 200
    THEN [exc |-> "ModemNotOkError", token |-> None, jar |-> jar, reg |-> reg1]
    ELSE [exc |-> NoExc, token |-> resp.text,
          jar |-> IF resp.set_cookie # None THEN jar \cup {resp.set_cookie} ELSE jar,
          reg |-> reg1]

\* One data request (lines 98-106, 115-123): [exc, page, reg].
do_data_request(resp, scrape_target, reg) ==
    LET reg1 == [reg EXCEPT !.scrape_result = Inc(reg.scrape_result, <<resp.status, scrape_target>>)] IN
    IF resp.error THEN [exc |-> "ClientError", reg |-> reg]
    ELSE IF resp.status # 200 THEN [exc |-> "ModemNotOkError", reg |-> reg1]
    ELSE [exc |-> NoExc, reg |-> reg1]

\* ------------------------------------------------------------- the device: the pages it serves
Page(title, systime, tables, tds, uptime) ==
    [title |-> title, systime |-> systime, tables |-> tables, tds |-> tds, uptime |-> uptime]

NoUptime == [found |-> FALSE, text |-> <<>>]

\* The page the device serves to a request it takes as unauthenticated.
LoginPage == Page("Login", NoElement, <<>>, EmptyDict, NoUptime)

\* An empty 200 body: no element at all.
EmptyPage == Page(NoElement, NoElement, <<>>, EmptyDict, NoUptime)

\* No page fetched (the variable is unbound or dead).
NoPage == Page("<no page>", NoElement, <<>>, EmptyDict, NoUptime)

GoodSysTime == "Current System Time: Tue Mar 12 14:20:59 2024"

\* A table: the <tr> of its <th>, which holds no <td>, then its rows.
Table(th, rows) == [th |-> th, rows |-> << <<>> >> \o rows]

StartupRowsWith(acquire) ==
    << <<"Procedure", "Status", "Comment">>,
       <<"Acquire Downstream Channel", acquire, "Locked">>,
       <<"Connectivity State", "OK", "Operational">>,
       <<"Boot State", "OK", "Operational">>,
       <<"Configuration File", "OK", "">>,
       <<"Security", "Disabled", "BPI+">>,
       <<"DOCSIS Network Access Enabled", "Allowed", "">> >>

StartupGood == Table("Startup Procedure", StartupRowsWith("363 Hz"))
\* The value cell of a modem that has not acquired a channel yet.
StartupBadValue == Table("Startup Procedure", StartupRowsWith(""))

DsRow(id, lock, frq, corrected) ==
    <<id, lock, "QAM256", frq, "6 dBmV", "40 dB", corrected, "0">>

UsRow(id, lock, frq) ==
    <<"1", id, lock, "SC-QAM Upstream", frq, "2 Hz", "40 dBmV">>

DsTable(rows) == Table("Downstream Bonded Channels", rows)
UsTable(rows) == Table("Upstream Bonded Channels", rows)

DsGood == DsTable(<< DsRow("1", "Locked", "363 Hz", "0"), DsRow("2", "Locked", "555 Hz", "1") >>)
DsOther == DsTable(<< DsRow("1", "Not Locked", "555 Hz", "2") >>)
\* A row whose channel id cell is no integer, between two rows that parse.
DsBadId == DsTable(<< DsRow("2", "Locked", "363 Hz", "0"), DsRow("n/a", "Locked", "363 Hz", "0"),
                      DsRow("1", "Locked", "555 Hz", "0") >>)
\* A row of another width and a row with a cell that is no number.
DsRagged == DsTable(<< <<"1", "Locked">>, DsRow("1", "Locked", "----", "0"),
                       DsRow("2", "Locked", "363 Hz", "n/a") >>)
UsGood == UsTable(<< UsRow("1", "Locked", "40 Hz") >>)
UsOther == UsTable(<< UsRow("2", "Not Locked", "6 Hz") >>)

StatusPage(systime, tables) == Page("Status", systime, tables, EmptyDict, NoUptime)

\* The connection status pages the device may serve.
ConnectionPages ==
    { LoginPage, EmptyPage,
      StatusPage(GoodSysTime, <<StartupGood, DsGood, UsGood>>),
      StatusPage(GoodSysTime, <<StartupGood, DsOther, UsOther>>),
      StatusPage(GoodSysTime, <<StartupGood, UsGood>>),
      StatusPage(GoodSysTime, <<StartupGood, DsBadId, UsGood>>),
      StatusPage(GoodSysTime, <<StartupGood, DsRagged>>),
      StatusPage(GoodSysTime, <<StartupBadValue, DsGood, UsGood>>),
      StatusPage(NoElement, <<DsGood, UsOther>>),
      StatusPage("Current System Time:", <<StartupGood, DsGood, UsGood>>) }

Chars0d == <<"0", " ", "d", "a", "y", "s", " ", "0", "0", "h", ":", "0", "1", "m", ":",
             "5", "5", "s", ".", "0", "0">>
Chars46d == <<"4", "6", " ", "d", "a", "y", "s", " ", "1", "2", "h", ":", "5", "5", "m", ":",
              "2", "1", "s", ".", "0", "0">>
\* "1 day 02h:00m:00s.00": the singular the pattern does not take.
Chars1day == <<"1", " ", "d", "a", "y", " ", "0", "2", "h", ":", "0", "0", "m", ":",
               "0", "0", "s", ".", "0", "0">>

InfoTds(version) ==
    [l \in {"Standard Specification Compliant", "Software Version",
            "Cable Modem MAC Address", "Serial Number"} |->
        CASE l = "Standard Specification Compliant" -> "Docsis 3.1"
          [] l = "Software Version" -> version
          [] l = "Cable Modem MAC Address" -> "00:11:22:33:44:55"
          [] l = "Serial Number" -> "SN0001"]

InfoPage(tds, uptime) == Page("Product Information", NoElement, <<>>, tds, uptime)

\* The product information pages the device may serve.
ProductPages ==
    { LoginPage, EmptyPage,
      InfoPage(InfoTds("v1"), [found |-> TRUE, text |-> Chars0d]),
      InfoPage(InfoTds("v2"), [found |-> TRUE, text |-> Chars46d]),
      InfoPage(InfoTds("v1"), [found |-> TRUE, text |-> Chars1day]),
      InfoPage(EmptyDict, NoUptime) }

\* The status codes the device answers with.
Statuses == {200, 401, 500}

\* The tokens a login may return.
Tokens == {"abc123", "xyz789"}

Failed == [error |-> TRUE, status |-> 0, text |-> "", set_cookie |-> None]

\* What a login request may meet: a failure below HTTP, a refusal, or a
\* token with or without a Set-Cookie header.
LoginResponses ==
    {Failed}
    \cup {[error |-> FALSE, status |-> st, text |-> "", set_cookie |-> None] : st \in Statuses \ {200}}
    \cup {[error |-> FALSE, status |-> 200, text |-> t, set_cookie |-> c] :
              t \in Tokens, c \in {None, "sessionId"}}

DataResponses(pages) ==
    {[error |-> TRUE, status |-> 0, page |-> NoPage]}
    \cup {[error |-> FALSE, status |-> st, page |-> NoPage] : st \in Statuses \ {200}}
    \cup {[error |-> FALSE, status |-> 200, page |-> pg] : pg \in pages}

\* ------------------------------------------------------------- main.py: the poll loop
VARIABLES
    pc,               \* where main() is: at the top of the loop, awaiting a
                      \* request or a sleep, between two calls, closing, done
    csrf_token,       \* main.py:78
    cookie_jar,       \* client.cookie_jar: the names of the cookies held
    reuse_login,      \* main.py:82
    connection_html,  \* main.py:87
    prod_info_html,   \* main.py:87
    reg,              \* the metrics of metrics.py
    requests,         \* requests sent to the device so far
    raised,           \* the exception the last step raised into main()'s handlers
    last,             \* the last response received: [target, status]
    h                 \* history of the run, read by the properties only

vars == <<pc, csrf_token, cookie_jar, reuse_login, connection_html, prod_info_html,
          reg, requests, raised, last, h>>

\* main.py:82 with the test of the token inverted.
ReuseLoginInverted(jar, token) == Cardinality(jar) > 0 /\ token = None

\* main.py:82 without the test of the token.
ReuseLoginJarOnly(jar, token) == Cardinality(jar) > 0

\* main.py:82: len(client.cookie_jar) > 0 and csrf_token is not None
ReuseLogin(jar, token) == Cardinality(jar) > 0 /\ token # None

\* The handlers with ModemNotOkError left to the last one, which continues.
ExceptTargetModemContinues(exc) ==
    IF exc \in {"NoAuthTokenError"} THEN "close" ELSE "loop"

\* The handlers with the last one breaking as the others do.
ExceptTargetAllBreak(exc) == "close"

\* The handlers of main.py:114-130: break on NoAuthTokenError and
\* ModemNotOkError, continue on any other exception.
ExceptTarget(exc) ==
    IF exc \in {"NoAuthTokenError", "ModemNotOkError"} THEN "close" ELSE "loop"

\* main.py:89 with only the connection page tested.
LoginPageDetectedFirstOnly(conn, prod) == is_login_page(conn)

\* main.py:89
LoginPageDetected(conn, prod) ==
    LET a == is_login_page(conn)
        b == is_login_page(prod) IN
    IF a.exc # NoExc THEN [exc |-> a.exc, value |-> FALSE]
    ELSE IF a.value THEN [exc |-> NoExc, value |-> TRUE]
    ELSE b

\* main.py:91-100: where a detected login page leads.
AfterLoginPage(reuse) == IF reuse THEN "loop" ELSE "sleep_relogin"

\* History: how the cycle now ending ended.
Ended(how) == [h EXCEPT !.prev_end = how]

Init ==
    /\ pc = "loop"
    /\ csrf_token = None
    /\ cookie_jar = {}
    /\ reuse_login = FALSE
    /\ connection_html = NoPage
    /\ prod_info_html = NoPage
    /\ reg = EmptyRegistry
    /\ requests = 0
    /\ raised = NoExc
    /\ last = [target |-> "none", status |-> 0]
    /\ h = [prev_end |-> "start", top_jar |-> FALSE, top_token |-> None,
            logins |-> 0, data |-> <<>>, login_page |-> FALSE, prev_login_page |-> FALSE,
            last_login |-> None, since_sleep |-> 0, info_kept |-> FALSE]

\* main.py:79-83
LoopTop ==
    /\ pc = "loop"
    /\ reuse_login' = ReuseLogin(cookie_jar, csrf_token)
    /\ pc' = IF reuse_login' THEN "scrape_conn" ELSE "login"
    /\ raised' = NoExc
    /\ h' = [h EXCEPT !.top_jar = cookie_jar # {}, !.top_token = csrf_token,
                      !.logins = 0, !.data = <<>>,
                      !.login_page = FALSE, !.prev_login_page = h.login_page]
    /\ UNCHANGED <<csrf_token, cookie_jar, connection_html, prod_info_html, reg, requests, last>>

\* main.py:85: csrf_token = await do_login(client)
DoLogin ==
    /\ pc = "login"
    /\ requests < MaxRequests
    /\ requests' = requests + 1
    /\ \E resp \in LoginResponses :
         LET r == do_login(resp, cookie_jar, reg) IN
         /\ reg' = r.reg
         /\ cookie_jar' = r.jar
         /\ csrf_token' = IF r.exc = NoExc THEN r.token ELSE csrf_token
         /\ raised' = r.exc
         /\ pc' = IF r.exc = NoExc THEN "scrape_conn" ELSE ExceptTarget(r.exc)
         /\ last' = IF resp.error THEN last ELSE [target |-> "login", status |-> resp.status]
         /\ h' = [(IF r.exc = NoExc THEN h ELSE Ended("exception")) EXCEPT
                      !.logins = h.logins + 1,
                      !.since_sleep = h.since_sleep + 1,
                      !.last_login = IF r.exc = NoExc THEN r.token ELSE h.last_login]
    /\ UNCHANGED <<reuse_login, connection_html, prod_info_html>>

\* main.py:87, first request of do_modem_scrape (scrape.py:94-106)
ScrapeConnection ==
    /\ pc = "scrape_conn"
    /\ requests < MaxRequests
    /\ requests' = requests + 1
    /\ \E resp \in DataResponses(ConnectionPages) :
         LET r == do_data_request(resp, "connection_data", reg) IN
         /\ reg' = r.reg
         /\ raised' = r.exc
         /\ connection_html' = IF r.exc = NoExc THEN resp.page ELSE NoPage
         /\ pc' = IF r.exc = NoExc THEN "scrape_prod" ELSE ExceptTarget(r.exc)
         /\ last' = IF resp.error THEN last
                    ELSE [target |-> "connection_data", status |-> resp.status]
         /\ h' = [(IF r.exc = NoExc THEN h ELSE Ended("exception")) EXCEPT
                      !.data = Append(h.data, csrf_token)]
    /\ UNCHANGED <<csrf_token, cookie_jar, reuse_login, prod_info_html>>

\* main.py:87, second request of do_modem_scrape (scrape.py:111-128)
ScrapeProduct ==
    /\ pc = "scrape_prod"
    /\ requests < MaxRequests
    /\ requests' = requests + 1
    /\ \E resp \in DataResponses(ProductPages) :
         LET r == do_data_request(resp, "product_info", reg) IN
         /\ reg' = r.reg
         /\ raised' = r.exc
         /\ prod_info_html' = IF r.exc = NoExc THEN resp.page ELSE NoPage
         /\ connection_html' = IF r.exc = NoExc THEN connection_html ELSE NoPage
         /\ pc' = IF r.exc = NoExc THEN "validate" ELSE ExceptTarget(r.exc)
         /\ last' = IF resp.error THEN last
                    ELSE [target |-> "product_info", status |-> resp.status]
         /\ h' = [(IF r.exc = NoExc THEN h ELSE Ended("exception")) EXCEPT
                      !.data = Append(h.data, csrf_token)]
    /\ UNCHANGED <<csrf_token, cookie_jar, reuse_login>>

\* main.py:89-100
ValidateResponse ==
    /\ pc = "validate"
    /\ LET d == LoginPageDetected(connection_html, prod_info_html)
           seen == connection_html.title = "Login" \/ prod_info_html.title = "Login"
       IN
       /\ raised' = d.exc
       /\ csrf_token' = IF d.exc = NoExc /\ d.value THEN None ELSE csrf_token
       /\ pc' = IF d.exc # NoExc THEN ExceptTarget(d.exc)
                ELSE IF d.value THEN AfterLoginPage(reuse_login)
                ELSE "update_conn"
       /\ h' = [(IF d.exc # NoExc THEN Ended("exception")
                 ELSE IF d.value THEN Ended("login_page")
                 ELSE h) EXCEPT !.login_page = seen]
       \* the pages are read no more once the cycle ends here
       /\ connection_html' = IF pc' = "update_conn" THEN connection_html ELSE NoPage
       /\ prod_info_html' = IF pc' = "update_conn" THEN prod_info_html ELSE NoPage
    /\ UNCHANGED <<cookie_jar, reuse_login, reg, requests, last>>

\* main.py:103
UpdateConnectionMetrics ==
    /\ pc = "update_conn"
    /\ LET r == update_connection_metrics(connection_html, reg) IN
       /\ reg' = r.reg
       /\ raised' = r.exc
       /\ pc' = IF r.exc = NoExc THEN "update_chan" ELSE ExceptTarget(r.exc)
       /\ h' = IF r.exc = NoExc THEN h ELSE Ended("exception")
       /\ connection_html' = IF r.exc = NoExc THEN connection_html ELSE NoPage
       /\ prod_info_html' = IF r.exc = NoExc THEN prod_info_html ELSE NoPage
    /\ UNCHANGED <<csrf_token, cookie_jar, reuse_login, requests, last>>

\* main.py:105
UpdateConnectionChannelMetrics ==
    /\ pc = "update_chan"
    /\ LET r == update_connection_channel_metrics(connection_html, reg) IN
       /\ reg' = r.reg
       /\ raised' = r.exc
       /\ pc' = IF r.exc = NoExc THEN "update_modem" ELSE ExceptTarget(r.exc)
       /\ h' = IF r.exc = NoExc THEN h ELSE Ended("exception")
       /\ prod_info_html' = IF r.exc = NoExc THEN prod_info_html ELSE NoPage
    /\ connection_html' = NoPage
    /\ UNCHANGED <<csrf_token, cookie_jar, reuse_login, requests, last>>

\* main.py:107
UpdateModemMetrics ==
    /\ pc = "update_modem"
    /\ LET r == update_modem_metrics(prod_info_html, reg) IN
       /\ reg' = r.reg
       /\ raised' = r.exc
       /\ pc' = IF r.exc = NoExc THEN "sleep_poll" ELSE ExceptTarget(r.exc)
       /\ h' = [(IF r.exc = NoExc THEN h ELSE Ended("exception")) EXCEPT
                    !.info_kept = h.info_kept \/ (DOMAIN reg.info # {}
                                    /\ DOMAIN get_modem_info(prod_info_html).strs = {})]
    /\ prod_info_html' = NoPage
    /\ UNCHANGED <<csrf_token, cookie_jar, reuse_login, connection_html, requests, last>>

\* main.py:112: await asyncio.sleep(METRICS_POLL_INTERVAL_SECONDS)
SleepPoll ==
    /\ pc = "sleep_poll"
    /\ pc' = "loop"
    /\ raised' = NoExc
    /\ h' = [Ended("poll") EXCEPT !.since_sleep = 0]
    /\ UNCHANGED <<csrf_token, cookie_jar, reuse_login, connection_html, prod_info_html,
                   reg, requests, last>>

\* main.py:99: await asyncio.sleep(RE_LOGIN_INTERVAL_SECONDS)
SleepReLogin ==
    /\ pc = "sleep_relogin"
    /\ pc' = "loop"
    /\ raised' = NoExc
    /\ h' = [Ended("relogin") EXCEPT !.since_sleep = 0]
    /\ UNCHANGED <<csrf_token, cookie_jar, reuse_login, connection_html, prod_info_html,
                   reg, requests, last>>

\* main.py:131: await client.close(), after a break
Close ==
    /\ pc = "close"
    /\ pc' = "done"
    /\ UNCHANGED <<csrf_token, cookie_jar, reuse_login, connection_html, prod_info_html,
                   reg, requests, raised, last, h>>

Next ==
    \/ LoopTop
    \/ DoLogin
    \/ ScrapeConnection
    \/ ScrapeProduct
    \/ ValidateResponse
    \/ UpdateConnectionMetrics
    \/ UpdateConnectionChannelMetrics
    \/ UpdateModemMetrics
    \/ SleepPoll
    \/ SleepReLogin
    \/ Close

Spec == Init /\ [][Next]_vars

\* ------------------------------------------------------------- _do_metrics_update on its own
\* The projection of one channel table, applied to tables of every shape the
\* device may send: connection_html holds the page of one table, reg the
\* registry, and the projection works on the registry an earlier one left.

\* The downstream rows: two channels, a second reading of channel 1, a cell
\* that is no number, a channel id that is no integer, a row of another width.
DsRows ==
    { DsRow("1", "Locked", "363 Hz", "0"), DsRow("2", "Locked", "555 Hz", "1"),
      DsRow("1", "Not Locked", "555 Hz", "2"), DsRow("2", "Locked", "----", "1"),
      DsRow("n/a", "Locked", "363 Hz", "0"), <<"1", "Locked">> }

UsRows ==
    { UsRow("1", "Locked", "40 Hz"), UsRow("2", "Not Locked", "6 Hz"), <<"1", "1", "Locked">> }

\* The lists of at most MaxRows rows.
RowLists(rows) == UNION {[1..n -> rows] : n \in 0..MaxRows}

\* A page that holds one channel table.
ChannelPages ==
    {StatusPage(GoodSysTime, <<DsTable(rs)>>) : rs \in RowLists(DsRows)}
    \cup {StatusPage(GoodSysTime, <<UsTable(rs)>>) : rs \in RowLists(UsRows)}

\* The table of a channel page: its rows and the map of its family.
ChannelTable(bs) ==
    LET ds == extract_downstream_channels(bs)
        us == extract_upstream_channels(bs) IN
    IF ~ds.none THEN [ch_data |-> ds.rows, metrics_map |-> DS_METRICS]
    ELSE [ch_data |-> us.rows, metrics_map |-> US_METRICS]

\* The registry at the start of a cycle: as imported, or as the projection
\* of an earlier cycle's table left it.
EarlierRegistries ==
    {do_metrics_update(ChannelTable(bs).ch_data, ChannelTable(bs).metrics_map, EmptyRegistry).reg :
        bs \in ChannelPages}

ProjectorInit ==
    /\ pc = "project"
    /\ reg \in EarlierRegistries
    /\ connection_html \in ChannelPages
    /\ requests = 0
    /\ raised = NoExc
    /\ csrf_token = None
    /\ cookie_jar = {}
    /\ reuse_login = FALSE
    /\ prod_info_html = NoPage
    /\ last = [target |-> "none", status |-> 0]
    /\ h = [prev_end |-> "start", top_jar |-> FALSE, top_token |-> None,
            logins |-> 0, data |-> <<>>, login_page |-> FALSE, prev_login_page |-> FALSE,
            last_login |-> None, since_sleep |-> 0, info_kept |-> FALSE]

\* _do_metrics_update(ch_data, metrics_map)
Project ==
    /\ pc = "project"
    /\ LET t == ChannelTable(connection_html)
           r == do_metrics_update(t.ch_data, t.metrics_map, reg) IN
       /\ reg' = r.reg
       /\ raised' = r.exc
    /\ pc' = "projected"
    /\ UNCHANGED <<csrf_token, cookie_jar, reuse_login, connection_html, prod_info_html,
                   requests, last, h>>

ProjectorNext == Project

ProjectorSpec == ProjectorInit /\ [][ProjectorNext]_vars

\* ------------------------------------------------------------- properties
\* The loop has ended (break) and main() closes the client or has returned.
Stopped == pc \in {"close", "done"}

\* The steps that project a page onto the metrics, in the order of main.py:103-107.
UpdateSteps == {"update_conn", "update_chan", "update_modem"}

NextSection(at) ==
    CASE at = "update_conn" -> "update_chan"
      [] at = "update_chan" -> "update_modem"
      [] at = "update_modem" -> "sleep_poll"

\* Either page fetched in this cycle has the title Login.
EitherIsLoginPage == connection_html.title = "Login" \/ prod_info_html.title = "Login"

\* The data metrics: every metric but the two meta counters.
DataMetrics(r) ==
    [gauge |-> r.gauge, summary |-> r.summary, enum |-> r.enum,
     info |-> r.info, uptime |-> r.uptime]

C2_DataNon200SleepsPoll ==
    [][(requests' # requests
        /\ last'.target \in {"connection_data", "product_info"}
        /\ last'.status # 200)
       => (pc' = "sleep_poll" /\ DataMetrics(reg') = DataMetrics(reg))]_vars

\* C3: a login answered with a status other than 200 and 401 does not stop
\* the loop.
C3_LoginNon200Recoverable ==
    [][(requests' # requests
        /\ last'.target = "login"
        /\ last'.status \notin {200, 401})
       => ~Stopped']_vars

\* C4: when a fetched page is a login page the token is dropped, and the
\* loop sleeps the re-login interval if a login was made in this cycle and
\* goes straight to the top of the loop, to log in, if none was.
C4_LoginPageSleepsIffFreshLogin ==
    /\ [][(pc = "validate" /\ EitherIsLoginPage)
          => (csrf_token' = None
              /\ pc' = IF h.logins > 0 THEN "sleep_relogin" ELSE "loop")]_vars
    /\ [][(pc = "sleep_relogin") => (pc' = "loop" /\ csrf_token' = None)]_vars
    /\ [][(pc = "loop" /\ csrf_token = None) => pc' = "login"]_vars

\* C5: after a cycle in which either fetched page is a login page the token
\* is None, and the next cycle sends no data request before a login.
C5_LoginPageInvalidatesToken ==
    /\ [][(pc = "validate" /\ EitherIsLoginPage) => csrf_token' = None]_vars
    /\ [](h.prev_login_page /\ pc \in {"scrape_conn", "scrape_prod"} => h.logins > 0)

C7_LoginPageKeepsMetrics ==
    /\ [](h.login_page => pc \notin UpdateSteps \cup {"sleep_poll"})
    /\ [][(pc \notin UpdateSteps) => (DataMetrics(reg') = DataMetrics(reg))]_vars

C7_Witness ==
    /\ h.login_page
    /\ pc \in {"loop", "sleep_relogin"}
    /\ reg.uptime = 115
    /\ DOMAIN reg.gauge # {}

\* C8: an exception that is neither ModemNotOkError nor NoAuthTokenError,
\* raised by any step of a cycle, takes the loop back to its top with the
\* token it held unchanged.
C8_UnclassifiedContinues ==
    [][(raised' \notin {NoExc, "ModemNotOkError", "NoAuthTokenError"} /\ pc # "loop")
       => (pc' = "loop" /\ csrf_token' = csrf_token)]_vars

C8_Witness ==
    /\ raised = "ValueError"
    /\ pc = "loop"
    /\ csrf_token # None

\* C9: whatever fails inside the projection of one section, the next section
\* is projected in the same cycle and the loop sleeps the poll interval
\* after the last one.
C9_ProjectionFailureContinues ==
    [][(pc \in UpdateSteps) => (pc' = NextSection(pc))]_vars

\* C10: when the connection page holds no downstream table but an upstream
\* table, the channel step still projects the upstream rows: it counts a
\* parse of conn_upstream and sets the frequency of every well-formed row.
C10_UpstreamStillUpdated ==
    [][(pc = "update_chan"
        /\ extract_downstream_channels(connection_html).none
        /\ ~extract_upstream_channels(connection_html).none)
       => LET rows == extract_upstream_channels(connection_html).rows IN
          /\ <<"conn_upstream", TRUE>> \in DOMAIN reg'.parse_result
          /\ \A i \in 1..Len(rows) :
                (Len(rows[i]) = Len(US_METRICS) /\ IsNumeric(rows[i][2])) =>
                    <<"g_upstream_frq_hz", StrOf(NumberOf[rows[i][2]])>> \in DOMAIN reg'.gauge]_vars

\* ------------------------------------------------------------- properties of the projection
\* The table being projected.
Rows == ChannelTable(connection_html).ch_data
Map == ChannelTable(connection_html).metrics_map
\* The column headed "Channel ID".
IdIdx == CHOOSE c \in 1..Len(Map) : Map[c].name = "Channel ID"

\* The columns projected per row and the columns tallied over the table.
PerEntityCols == {c \in 1..Len(Map) : Map[c].metric # None /\ Map[c].flags = None /\ c # IdIdx}
CumulativeCols == {c \in 1..Len(Map) : Map[c].metric # None /\ Map[c].flags # None /\ c # IdIdx}

\* Row i has the width of the schema; its channel id is an integer; its
\* per-entity cells are numbers.
WidthOk(i) == Len(Rows[i]) = Len(Map)
IdOk(i) == WidthOk(i) /\ IsNumeric(Rows[i][IdIdx])
CellOk(i, c) == IdOk(i) /\ IsNumeric(Split(Rows[i][c])[1])
WellFormed == \A i \in 1..Len(Rows) : IdOk(i) /\ \A c \in PerEntityCols : CellOk(i, c)

\* The label of row i and the number in its cell c.
LabelOf(i) == StrOf(NumberOf[Rows[i][IdIdx]])
CellNumber(i, c) == NumberOf[Split(Rows[i][c])[1]]

\* The rows that carry the label of row i, and the sum of their cells c.
SameLabel(i) == {j \in 1..Len(Rows) : IdOk(j) /\ LabelOf(j) = LabelOf(i)}
RECURSIVE CellSum(_, _)
CellSum(js, c) ==
    IF js = {} THEN 0
    ELSE LET j == CHOOSE x \in js : TRUE IN CellNumber(j, c) + CellSum(js \ {j}, c)

\* What a summary child held before: nothing observed when it did not exist.
SummaryOf(r, key) ==
    IF key \in DOMAIN r.summary THEN r.summary[key] ELSE [count |-> 0, sum |-> 0]

\* C11: projecting a table whose rows all have the schema's width, an
\* integer channel id and numeric per-entity cells makes, for every
\* per-entity column, one update per row under the label of that row's
\* channel id: a summary child gains one observation per row of its label
\* and their sum, a gauge child holds the cell of the last row of its label,
\* and no child of another label appears.
C11_OneUpdatePerRow ==
    [][(pc = "project" /\ WellFormed) =>
        /\ raised' = NoExc
        /\ \A c \in PerEntityCols : \A i \in 1..Len(Rows) :
              LET key == <<Map[c].metric, LabelOf(i)>>
                  last_j == CHOOSE j \in SameLabel(i) : \A k \in SameLabel(i) : k <= j
              IN IF Map[c].kind = "Summary"
                 THEN /\ key \in DOMAIN reg'.summary
                      /\ reg'.summary[key].count =
                             SummaryOf(reg, key).count + Cardinality(SameLabel(i))
                      /\ reg'.summary[key].sum =
                             SummaryOf(reg, key).sum + CellSum(SameLabel(i), c)
                 ELSE /\ key \in DOMAIN reg'.gauge
                      /\ reg'.gauge[key] = CellNumber(last_j, c)
        /\ \A key \in ((DOMAIN reg'.gauge) \ (DOMAIN reg.gauge))
                        \cup ((DOMAIN reg'.summary) \ (DOMAIN reg.summary)) :
              \/ \E c \in CumulativeCols : key[1] = Map[c].metric
              \/ \E c \in PerEntityCols, i \in 1..Len(Rows) :
                    key = <<Map[c].metric, LabelOf(i)>>]_vars

\* An upstream table of two rows, of channel ids 2 and 1 under the row
\* number 1: each frequency is published under its own channel id.
C11_Witness ==
    /\ pc = "projected"
    /\ WellFormed
    /\ Rows = << UsRow("2", "Not Locked", "6 Hz"), UsRow("1", "Locked", "40 Hz") >>
    /\ <<"g_upstream_frq_hz", "2">> \in DOMAIN reg.gauge
    /\ reg.gauge[<<"g_upstream_frq_hz", "2">>] = 6
    /\ reg.gauge[<<"g_upstream_frq_hz", "1">>] = 40

\* The rows the projection reaches: those of the schema's width.
Projected == {i \in 1..Len(Rows) : WidthOk(i)}

\* C12: after a projection that raised nothing, for every cumulative column
\* and every raw value a projected row holds in it, the gauge child labeled
\* with that raw value exists and equals the number of projected rows whose
\* cell in that column is that raw value.
C12_TallyPerRawValue ==
    [][(pc = "project" /\ raised' = NoExc) =>
        \A c \in CumulativeCols : \A i \in Projected :
            LET key == <<Map[c].metric, Rows[i][c]>> IN
            /\ key \in DOMAIN reg'.gauge
            /\ reg'.gauge[key] = Cardinality({j \in Projected : Rows[j][c] = Rows[i][c]})]_vars

\* C13: after a projection that raised nothing, every child of a cumulative
\* column's gauge, whichever projection created it, equals the number of
\* rows of the table just projected that were tallied under its label: a
\* label the table does not hold reports no count of an earlier table.
C13_TallyRecomputed ==
    [][(pc = "project" /\ raised' = NoExc) =>
        \A c \in CumulativeCols : \A key \in DOMAIN reg'.gauge :
            key[1] = Map[c].metric =>
                reg'.gauge[key] =
                    Cardinality({j \in Projected : Split(Rows[j][c])[1] = key[2]})]_vars

\* The table without its rows of another width.
WithoutRagged == SelectSeq(Rows, LAMBDA row : Len(row) = Len(Map))

\* C14: a row whose width is not the schema's changes nothing: the
\* projection of a table that holds such rows leaves the registry, and raises,
\* what the projection of the same table without them does; and when the
\* other rows have integer channel ids nothing is raised, every one of them,
\* before or after the dropped row, has its numeric per-entity cells
\* published under its label, and the tallies count those rows only.
C14_RaggedRowDropped ==
    [][(pc = "project" /\ Projected # 1..Len(Rows)) =>
        LET r == do_metrics_update(WithoutRagged, Map, reg) IN
        /\ reg' = r.reg
        /\ raised' = r.exc
        /\ (\A i \in Projected : IdOk(i)) =>
              /\ raised' = NoExc
              /\ \A c \in PerEntityCols : \A i \in Projected :
                    CellOk(i, c) =>
                        <<Map[c].metric, LabelOf(i)>> \in
                            (DOMAIN reg'.gauge) \cup (DOMAIN reg'.summary)
              /\ \A c \in CumulativeCols : \A i \in Projected :
                    reg'.gauge[<<Map[c].metric, Split(Rows[i][c])[1]>>] =
                        Cardinality({j \in Projected :
                                        Split(Rows[j][c])[1] = Split(Rows[i][c])[1]})]_vars

\* A row of two cells before a row of the schema's width, on a registry
\* that held the frequency of channel 1 already.
C14_Witness ==
    /\ pc = "projected"
    /\ raised = NoExc
    /\ Rows = << <<"1", "Locked">>, DsRow("2", "Locked", "555 Hz", "1") >>
    /\ <<"g_downstream_frq_hz", "1">> \in DOMAIN reg.gauge
    /\ reg.gauge[<<"g_downstream_frq_hz", "1">>] = 363
    /\ reg.gauge[<<"g_downstream_frq_hz", "2">>] = 555
    /\ reg.gauge[<<"g_downstream_lock_status", "Locked">>] = 1

\* The rows of row i's label whose cell c is a number.
GoodCells(i, c) == {j \in SameLabel(i) : CellOk(j, c)}

\* C15: when the channel ids are integers and some per-entity cell is no
\* number, the projection raises nothing and skips that cell only: a child
\* that no numeric cell feeds is left as it was, every numeric cell of the
\* same row and of the other rows is published (a gauge holds the last
\* numeric cell of its label, a summary gains one observation per numeric
\* cell), and the tallies of the cumulative columns count every row.
C15_BadCellSkipped ==
    [][(pc = "project"
        /\ (\A i \in Projected : IdOk(i))
        /\ (\E i \in Projected : \E c \in PerEntityCols : ~CellOk(i, c))) =>
        /\ raised' = NoExc
        /\ \A c \in PerEntityCols : \A i \in Projected :
              LET key == <<Map[c].metric, LabelOf(i)>>
                  good == GoodCells(i, c)
              IN IF good = {}
                 THEN /\ (key \in DOMAIN reg'.gauge) = (key \in DOMAIN reg.gauge)
                      /\ (key \in DOMAIN reg'.summary) = (key \in DOMAIN reg.summary)
                      /\ key \in DOMAIN reg.gauge => reg'.gauge[key] = reg.gauge[key]
                      /\ key \in DOMAIN reg.summary => reg'.summary[key] = reg.summary[key]
                 ELSE IF Map[c].kind = "Summary"
                 THEN /\ key \in DOMAIN reg'.summary
                      /\ reg'.summary[key].count = SummaryOf(reg, key).count + Cardinality(good)
                      /\ reg'.summary[key].sum = SummaryOf(reg, key).sum + CellSum(good, c)
                 ELSE /\ key \in DOMAIN reg'.gauge
                      /\ reg'.gauge[key] =
                             CellNumber(CHOOSE j \in good : \A k \in good : k <= j, c)
        /\ \A c \in CumulativeCols : \A i \in Projected :
              LET key == <<Map[c].metric, Split(Rows[i][c])[1]>> IN
              /\ key \in DOMAIN reg'.gauge
              /\ reg'.gauge[key] =
                     Cardinality({j \in Projected :
                                     Split(Rows[j][c])[1] = Split(Rows[i][c])[1]})]_vars

\* The frequency of channel 2 is "----": no frequency of channel 2 is
\* published, its power is, and so is the frequency of the row after it.
C15_Witness ==
    /\ pc = "projected"
    /\ raised = NoExc
    /\ Rows = << DsRow("2", "Locked", "----", "1"), DsRow("1", "Locked", "363 Hz", "0") >>
    /\ <<"g_downstream_frq_hz", "2">> \notin DOMAIN reg.gauge
    /\ reg.gauge[<<"g_downstream_power_db", "2">>] = 6
    /\ reg.gauge[<<"g_downstream_frq_hz", "1">>] = 363
    /\ reg.gauge[<<"g_downstream_lock_status", "Locked">>] = 2

\* ------------------------------------------------------------- properties of the cycle's sections
\* How often c_meta_parse_result was incremented for a target, either result.
ParseCount(r, target) ==
    (IF <<target, TRUE>> \in DOMAIN r.parse_result THEN r.parse_result[<<target, TRUE>>] ELSE 0)
    + (IF <<target, FALSE>> \in DOMAIN r.parse_result THEN r.parse_result[<<target, FALSE>>] ELSE 0)

\* C16: in a cycle that reaches the updates, each update step increments
\* the parse-outcome counter of every target it is to extract: startup in
\* update_connection_metrics, datetime, conn_downstream and conn_upstream in
\* update_connection_channel_metrics, product_info in update_modem_metrics.
C16_EveryAttemptCounted ==
    /\ [][(pc = "update_conn") => ParseCount(reg', "startup") > ParseCount(reg, "startup")]_vars
    /\ [][(pc = "update_chan") =>
             \A t \in {"datetime", "conn_downstream", "conn_upstream"} :
                 ParseCount(reg', t) > ParseCount(reg, t)]_vars
    /\ [][(pc = "update_modem") =>
             ParseCount(reg', "product_info") > ParseCount(reg, "product_info")]_vars

\* C17: is_login_page of either page fetched raises nothing and is true
\* exactly when the page's title is Login, a page with no title element
\* included; so the check of the two pages raises nothing into main().
C17_IsLoginPageTotal ==
    [][(pc = "validate") =>
        /\ \A page \in {connection_html, prod_info_html} :
              /\ is_login_page(page).exc = NoExc
              /\ is_login_page(page).value = (page.title = "Login")
        /\ raised' = NoExc]_vars

\* The text of the product page's Up Time cell; <<>> when it has none.
UptimeText == IF prod_info_html.uptime.found THEN prod_info_html.uptime.text ELSE <<>>

\* C18 (as the code has it): '0 days 00h:01m:55s.00' parses to 115 seconds
\* and '46 days 12h:55m:21s.00' to 4,020,921 seconds
\* (46*86400 + 12*3600 + 55*60 + 21), and update_modem_metrics sets the
\* uptime gauge to that number.
C18_DurationSeconds ==
    /\ [](get_uptime_str_as_timedelta(Chars0d) = [none |-> FALSE, seconds |-> 115])
    /\ [](get_uptime_str_as_timedelta(Chars46d) = [none |-> FALSE, seconds |-> 4020921])
    /\ [][(pc = "update_modem" /\ UptimeText = Chars0d) => reg'.uptime = 115]_vars
    /\ [][(pc = "update_modem" /\ UptimeText = Chars46d) => reg'.uptime = 4020921]_vars

\* The 46 days have been projected.
C18_Witness ==
    /\ pc = "sleep_poll"
    /\ reg.uptime = 4020921
    /\ <<"product_info", TRUE>> \in DOMAIN reg.parse_result

\* C18 (as stated): the 46 days, 12 hours, 55 minutes and 21 seconds are
\* 4,021,321 seconds.
C18_AsStated ==
    /\ [][(pc = "update_modem" /\ UptimeText = Chars0d) => reg'.uptime = 115]_vars
    /\ [][(pc = "update_modem" /\ UptimeText = Chars46d) => reg'.uptime = 4021321]_vars

\* How often c_meta_parse_result was incremented for product_info with a result.
ProductInfoCount(r, result) ==
    IF <<"product_info", result>> \in DOMAIN r.parse_result
    THEN r.parse_result[<<"product_info", result>>] ELSE 0

\* C19: when the product page has no Up Time cell, or one whose text is not
\* of the form '<d> days <h>h:<m>m:<s>s', update_modem_metrics raises
\* nothing, leaves the uptime gauge at its value, counts one product_info
\* failure and no success, and the loop goes on to its poll sleep.
C19_BadUptimeKeepsGauge ==
    [][(pc = "update_modem" /\ UptimeText \notin {Chars0d, Chars46d}) =>
        /\ raised' = NoExc
        /\ reg'.uptime = reg.uptime
        /\ ProductInfoCount(reg', FALSE) = ProductInfoCount(reg, FALSE) + 1
        /\ ProductInfoCount(reg', TRUE) = ProductInfoCount(reg, TRUE)
        /\ pc' = "sleep_poll"]_vars

\* The page of the 46 days was projected, then the page whose Up Time reads
\* '1 day 02h:00m:00s.00' (it alone leaves the version v1 beside an uptime
\* that is not 115): the gauge still holds the 46 days.
C19_Witness ==
    /\ pc = "sleep_poll"
    /\ reg.uptime = 4020921
    /\ "software_version" \in DOMAIN reg.info
    /\ reg.info["software_version"] = "v1"
    /\ ProductInfoCount(reg, FALSE) = 1
    /\ ProductInfoCount(reg, TRUE) = 1

\* The children of the registry that a step created or changed.
Written(r, r2) ==
    {k \in DOMAIN r2.gauge : k \notin DOMAIN r.gauge \/ r2.gauge[k] # r.gauge[k]}
    \cup {k \in DOMAIN r2.summary : k \notin DOMAIN r.summary \/ r2.summary[k] # r.summary[k]}

\* C20: every child a projection writes belongs to the metric of a column
\* other than the channel id column: a per-entity child carries the channel
\* id of a projected row as its label, a cumulative child the first token of
\* a cell of its own column; no child is written for the channel id column
\* and no tally is kept of it.
C20_ChannelIdOnlyLabel ==
    [][(pc = "project") =>
        \A key \in Written(reg, reg') :
            \E c \in PerEntityCols \cup CumulativeCols :
                /\ c # IdIdx
                /\ Map[c].name # "Channel ID"
                /\ key[1] = Map[c].metric
                /\ c \in PerEntityCols =>
                      \E i \in Projected : IdOk(i) /\ key[2] = LabelOf(i)
                /\ c \in CumulativeCols =>
                      \E i \in Projected : key[2] = Split(Rows[i][c])[1]]_vars

\* One downstream row of channel id 2, projected on the empty registry: the
\* registry holds the five gauges and two summaries of the other columns
\* and nothing else.
C20_Witness ==
    /\ pc = "projected"
    /\ Rows = << DsRow("2", "Locked", "555 Hz", "1") >>
    /\ DOMAIN reg.gauge =
          { <<"g_downstream_lock_status", "Locked">>, <<"g_downstream_modulation_scheme", "QAM256">>,
            <<"g_downstream_frq_hz", "2">>, <<"g_downstream_power_db", "2">>,
            <<"g_downstream_snr_db", "2">> }
    /\ DOMAIN reg.summary =
          { <<"s_downstream_corrected", "2">>, <<"s_downstream_uncorrectable", "2">> }

\* ------------------------------------------------------------- properties of the startup and info metrics
\* The startup procedures of the page fetched, in the page's order.
StartupInfo == extract_startup_procedure(connection_html)

\* C21: after update_connection_metrics returns, every procedure with an
\* enumerated metric is published in the state its value maps to, the
\* metric's default when the value has no entry, under the row's comment as
\* label value when the comment is not empty and under no label value (the
\* empty one) when it is.
C21_EnumStateAndComment ==
    [][(pc = "update_conn" /\ raised' = NoExc) =>
        \A i \in 1..Len(StartupInfo) :
            LET md == SU_METRICS[StartupInfo[i].key]
                data == StartupInfo[i].val
                key == <<md.metric, data.Comment>>
            IN md.kind = "Enum" =>
                 /\ key \in DOMAIN reg'.enum
                 /\ reg'.enum[key] = IF data.Value \in DOMAIN md.values
                                     THEN md.values[data.Value] ELSE md.default]_vars

\* The product page holds none of the cells get_modem_info reads as strings.
NoStringField == (DOMAIN prod_info_html.tds) \cap (DOMAIN InfoKeyOf) = {}

\* C22: update_modem_metrics of a page that yields no string field leaves
\* the info metric as it was, and no step ever takes the info metric from a
\* mapping that holds fields to the empty one.
C22_InfoNeverEmptied ==
    /\ [][(pc = "update_modem" /\ NoStringField) => reg'.info = reg.info]_vars
    /\ [][(DOMAIN reg.info # {}) => (DOMAIN reg'.info # {})]_vars

\* A page with no field was projected after a page that had published the
\* fields: the version is still there.
C22_Witness ==
    /\ pc = "sleep_poll"
    /\ h.info_kept
    /\ "software_version" \in DOMAIN reg.info
    /\ reg.info["software_version"] = "v2"

\* ------------------------------------------------------------- properties of the session
\* C23: whenever a data request is about to be sent, and for every data
\* request sent in the cycle, a token is held and it is the one the last
\* successful login returned; so no data request precedes the first
\* successful login.
C23_DataCarriesLoginToken ==
    /\ pc \in {"scrape_conn", "scrape_prod"} =>
          (csrf_token # None /\ csrf_token = h.last_login)
    /\ \A i \in 1..Len(h.data) : h.data[i] # None /\ h.data[i] = h.last_login
    /\ last.target \in {"connection_data", "product_info"} => h.last_login # None

\* A cycle that sent no login and both data requests, with the token of
\* the login of an earlier cycle.
C23_Witness ==
    /\ pc = "validate"
    /\ h.logins = 0
    /\ h.data = <<"xyz789", "xyz789">>
    /\ h.last_login = "xyz789"

\* C24: at most two login requests are sent with no sleep, of the poll
\* interval or of the re-login interval, between them.
C24_NoBusyLogin == h.since_sleep <= 2

====
